---- MODULE Spec2Model ----
(***************************************************************************)
(* Model of the agentic query pipeline of StockMarketUpdate-withRAG:       *)
(* UnifiedAgenticWorkflow.run drives PlannerNode, ExecutorNode and         *)
(* SynthesizerNode over one shared state dictionary.                       *)
(*                                                                         *)
(* Strings are sequences of atoms (Text); concatenation is \o, an f-string *)
(* is the concatenation of its literal pieces and its interpolated values. *)
(* A Python value that may be None is a record tagged with its kind.       *)
(*                                                                         *)
(* The compiled graph is the chain planner -> executor -> synthesizer ->   *)
(* END: each node is called with the state, and what it stores is what the *)
(* next node reads.  A capability provider is whatever object the          *)
(* Executor's registry holds under a name: its _run returns a string or    *)
(* raises.  The nodes can also be called on their own, the Planner on a    *)
(* state holding only the query, the Executor on a state holding a plan.   *)
(*                                                                         *)
(* Two further parts of the repository are modelled on their own           *)
(* variables: the incremental ingestion (ingest_pdfs, SpecIngest) and the  *)
(* session handling of the chat API (api/main.py, SpecApi).                *)
(***************************************************************************)
EXTENDS Integers, Sequences, FiniteSets, TLC

VARIABLES
    pc,         \* stage about to run: "idle", "planner", "executor", "synthesizer", "done"
    entry,      \* what was called: "none", "run", "planner", "executor", "rag_tool",
                \* "stock_tool", "get_status"
    state,      \* the WorkflowState dictionary threaded through the nodes
    ret,        \* value returned by UnifiedAgenticWorkflow.run
    exc,        \* exception that left a node called directly (None when there is none)
    llm_log,    \* language-model calls attempted so far, in order
    tool_log,   \* provider invocations made by the Executor, in order
    stage_log,  \* stages that have run, in order
    direct,     \* the call made when a provider is called on its own
    mode,       \* UnifiedAgenticWorkflow.mode: "langgraph" or "simple"
    status,     \* the dictionary returned by get_status
    docs,       \* the docs directory: whether it exists, and the files in it
    processed_files_json,  \* the file processed_files.json: whether it exists, its list
    index,      \* the vector index: how many times each file's chunks were added
    ingest,     \* what the last ingest_pdfs call met and did
    sessions,   \* api.main.sessions: the chat memory of each session id
    requests,   \* the API requests handled so far, in order, with their outcome
    response    \* the body of the last API response

\* the variables of the agentic pipeline, of the ingestion and of the API
workflow_vars == <<pc, entry, state, ret, exc, llm_log, tool_log, stage_log, direct, mode, status>>
ingest_vars == <<docs, processed_files_json, index, ingest>>
api_vars == <<sessions, requests, response>>

vars == <<workflow_vars, ingest_vars, api_vars>>

----------------------------------------------------------------------------
(* Bounds of the exploration *)

\* longest tools_to_use list of a plan handed directly to the Executor
MaxTools == 2

\* most chunks a PDF is split into
MaxChunks == 2

\* most API requests handled in one exploration
MaxRequests == 3

----------------------------------------------------------------------------
(* Python values *)

NoneVal == [kind |-> "None", text |-> << >>]
Str(t) == [kind |-> "str", text |-> t]
Raised(type, msg) == [kind |-> "exc", type |-> type, text |-> msg]
NoExc == [kind |-> "None", type |-> "", text |-> << >>]

EmptyDict == << >>

\* dict.get(key, default)
Get(d, k, default) == IF k \in DOMAIN d THEN d[k] ELSE default

RECURSIVE Join(_, _)
\* sep.join(parts)
Join(parts, sep) ==
    IF parts = << >> THEN << >>
    ELSE IF Len(parts) = 1 THEN parts[1]
    ELSE parts[1] \o sep \o Join(Tail(parts), sep)

\* p in t, for strings
IsSubstr(p, t) ==
    \E i \in 0..Len(t) :
        /\ i + Len(p) <= Len(t)
        /\ \A j \in 1..Len(p) : t[i + j] = p[j]

----------------------------------------------------------------------------
(* Atoms of the strings met in the exploration *)

\* str.lower() on one atom
LowerAtom(a) ==
    CASE a = "STOCK_QUOTE" -> "stock_quote"
      [] a = "Rag_Search"  -> "rag_search"
      [] a = "TSLA"        -> "tsla"
      [] a = "Tesla"       -> "tesla"
      [] a = "Metadata"    -> "metadata"
      [] OTHER             -> a

\* str.upper() on one atom
UpperAtom(a) ==
    CASE a = "stock_quote" -> "STOCK_QUOTE"
      [] a = "rag_search"  -> "RAG_SEARCH"
      [] a = "Rag_Search"  -> "RAG_SEARCH"
      [] a = "tsla"        -> "TSLA"
      [] a = "intc"        -> "INTC"
      [] a = "Tesla"       -> "TESLA"
      [] a = "Metadata"    -> "METADATA"
      [] a = "price"       -> "PRICE"
      [] a = "hello"       -> "HELLO"
      [] a = "unsure"      -> "UNSURE"
      [] OTHER             -> a

Lower(t) == [i \in 1..Len(t) |-> LowerAtom(t[i])]
Upper(t) == [i \in 1..Len(t) |-> UpperAtom(t[i])]

\* the atom a holds the word w as a substring
AtomHas(a, w) == a = w \/ <<a, w>> \in {<<"METADATA", "META">>}

\* w in t, for a word w without blanks
Mentions(t, w) == \E i \in 1..Len(t) : AtomHas(t[i], w)

----------------------------------------------------------------------------
(* Plans *)

NonePlan ==
    [kind |-> "None", keys |-> {}, tools_to_use |-> << >>,
     parameters |-> EmptyDict, reasoning |-> << >>]

\* a plan dictionary holding the keys `keys`
PlanDict(keys, tools, params, reasoning) ==
    [kind |-> "dict", keys |-> keys, tools_to_use |-> tools,
     parameters |-> params, reasoning |-> reasoning]

PlanKeys == {"tools_to_use", "parameters", "reasoning"}

Plan(tools, params, reasoning) == PlanDict(PlanKeys, tools, params, reasoning)

----------------------------------------------------------------------------
(* PlannerNode *)

symbols == <<"AAPL", "MSFT", "GOOGL", "AMZN", "TSLA", "META", "NFLX", "NVDA", "AMD", "INTC">>

company_map ==
    << <<"APPLE", "AAPL">>, <<"MICROSOFT", "MSFT">>, <<"GOOGLE", "GOOGL">>,
       <<"ALPHABET", "GOOGL">>, <<"AMAZON", "AMZN">>, <<"TESLA", "TSLA">>,
       <<"META", "META">>, <<"FACEBOOK", "META">>, <<"NETFLIX", "NFLX">>,
       <<"NVIDIA", "NVDA">>, <<"AMD", "AMD">>, <<"INTEL", "INTC">> >>

\* _extract_symbol_from_text with a bug: company names are not looked for
_extract_symbol_from_text_TickersOnly(text) ==
    LET text_upper == Upper(text)
        hitS == {i \in 1..Len(symbols) : Mentions(text_upper, symbols[i])}
        first(S) == CHOOSE i \in S : \A j \in S : i <= j
    IN  IF hitS # {} THEN symbols[first(hitS)] ELSE "AAPL"

\* _extract_symbol_from_text with a bug: no default ticker, an empty symbol instead
_extract_symbol_from_text_NoDefault(text) ==
    LET text_upper == Upper(text)
        hitS == {i \in 1..Len(symbols) : Mentions(text_upper, symbols[i])}
        hitC == {i \in 1..Len(company_map) : Mentions(text_upper, company_map[i][1])}
        first(S) == CHOOSE i \in S : \A j \in S : i <= j
    IN  IF hitS # {} THEN symbols[first(hitS)]
        ELSE IF hitC # {} THEN company_map[first(hitC)][2]
        ELSE ""

\* _extract_symbol_from_text with a bug: the company names are looked for first
_extract_symbol_from_text_CompaniesFirst(text) ==
    LET text_upper == Upper(text)
        hitS == {i \in 1..Len(symbols) : Mentions(text_upper, symbols[i])}
        hitC == {i \in 1..Len(company_map) : Mentions(text_upper, company_map[i][1])}
        first(S) == CHOOSE i \in S : \A j \in S : i <= j
    IN  IF hitC # {} THEN company_map[first(hitC)][2]
        ELSE IF hitS # {} THEN symbols[first(hitS)]
        ELSE "AAPL"

_extract_symbol_from_text(text) ==
    LET text_upper == Upper(text)
        hitS == {i \in 1..Len(symbols) : Mentions(text_upper, symbols[i])}
        hitC == {i \in 1..Len(company_map) : Mentions(text_upper, company_map[i][1])}
        first(S) == CHOOSE i \in S : \A j \in S : i <= j
    IN  IF hitS # {} THEN symbols[first(hitS)]
        ELSE IF hitC # {} THEN company_map[first(hitC)][2]
        ELSE "AAPL"

\* _extract_plan_from_response with a bug: the question is the lower-cased query
_extract_plan_from_response_LowerQuestion(response_text, user_query) ==
    LET response_lower == Lower(response_text) IN
    IF Mentions(response_lower, "stock_quote")
    THEN Plan(<<"stock_quote">>,
              "stock_quote" :> ("symbol" :>
                  <<_extract_symbol_from_text(response_text \o <<" ">> \o user_query)>>),
              <<"LLM selected stock_quote tool">>)
    ELSE IF Mentions(response_lower, "rag_search")
    THEN Plan(<<"rag_search">>,
              "rag_search" :> ("question" :> Lower(user_query)),
              <<"LLM selected rag_search tool">>)
    ELSE NonePlan

\* _extract_plan_from_response with a change: a response naming both capabilities
\* gives a plan with both
_extract_plan_from_response_Both(response_text, user_query) ==
    LET response_lower == Lower(response_text)
        quote == "stock_quote" :> ("symbol" :>
                    <<_extract_symbol_from_text(response_text \o <<" ">> \o user_query)>>)
        search == "rag_search" :> ("question" :> user_query)
    IN
    IF Mentions(response_lower, "stock_quote") /\ Mentions(response_lower, "rag_search")
    THEN Plan(<<"stock_quote", "rag_search">>, quote @@ search, <<"LLM selected both tools">>)
    ELSE IF Mentions(response_lower, "stock_quote")
    THEN Plan(<<"stock_quote">>, quote, <<"LLM selected stock_quote tool">>)
    ELSE IF Mentions(response_lower, "rag_search")
    THEN Plan(<<"rag_search">>, search, <<"LLM selected rag_search tool">>)
    ELSE NonePlan

\* _extract_plan_from_response with a bug: rag_search is looked for first
_extract_plan_from_response_RagFirst(response_text, user_query) ==
    LET response_lower == Lower(response_text) IN
    IF Mentions(response_lower, "rag_search")
    THEN Plan(<<"rag_search">>,
              "rag_search" :> ("question" :> user_query),
              <<"LLM selected rag_search tool">>)
    ELSE IF Mentions(response_lower, "stock_quote")
    THEN Plan(<<"stock_quote">>,
              "stock_quote" :> ("symbol" :>
                  <<_extract_symbol_from_text(response_text \o <<" ">> \o user_query)>>),
              <<"LLM selected stock_quote tool">>)
    ELSE NonePlan

\* _extract_plan_from_response with an else branch: rag_search when no name is found
_extract_plan_from_response_DefaultRag(response_text, user_query) ==
    LET response_lower == Lower(response_text) IN
    IF Mentions(response_lower, "stock_quote")
    THEN Plan(<<"stock_quote">>,
              "stock_quote" :> ("symbol" :>
                  <<_extract_symbol_from_text(response_text \o <<" ">> \o user_query)>>),
              <<"LLM selected stock_quote tool">>)
    ELSE Plan(<<"rag_search">>,
              "rag_search" :> ("question" :> user_query),
              <<"LLM selected rag_search tool">>)

_extract_plan_from_response(response_text, user_query) ==
    LET response_lower == Lower(response_text) IN
    IF Mentions(response_lower, "stock_quote")
    THEN Plan(<<"stock_quote">>,
              "stock_quote" :> ("symbol" :>
                  <<_extract_symbol_from_text(response_text \o <<" ">> \o user_query)>>),
              <<"LLM selected stock_quote tool">>)
    ELSE IF Mentions(response_lower, "rag_search")
    THEN Plan(<<"rag_search">>,
              "rag_search" :> ("question" :> user_query),
              <<"LLM selected rag_search tool">>)
    ELSE NonePlan

\* PlanningErrorPlan with a bug: no plan is stored when the model call raises
PlanningErrorPlan_None(msg) == NonePlan

\* the plan stored when the model call raises
PlanningErrorPlan(msg) == Plan(<< >>, EmptyDict, <<"Error during planning: ">> \o msg)

----------------------------------------------------------------------------
(* Language-model client *)

\* what ChatGroq.invoke can do inside generate_response: answer, or raise
Responses ==
    { <<"stock_quote">>, <<"STOCK_QUOTE", "TSLA">>, <<"Rag_Search">>,
      <<"stock_quote", "rag_search">>, <<"unsure">>, << >> }

Msgs == { <<"timeout">>, << >> }

LLMClient_generate_response == {Str(r) : r \in Responses} \cup {Raised("Exception", m) : m \in Msgs}

\* the methods LLMClient defines
LLMClient_methods == {"generate_response"}

\* SynthesizerNode calls self.llm.get_response, which LLMClient does not define
LLMClient_get_response ==
    {Raised("AttributeError", <<"'LLMClient' object has no attribute 'get_response'">>)}

----------------------------------------------------------------------------
(* Capability providers, as the Executor sees them: tool._run returns a    *)
(* string or raises                                                        *)

ToolTexts == { <<"answer">>, << >> }
ToolMsgs == { <<"boom">> }

ToolOutcomes == {Str(t) : t \in ToolTexts} \cup {Raised("Exception", m) : m \in ToolMsgs}

\* ExecutorNode.tools
tools == {"rag_search", "stock_quote"}

----------------------------------------------------------------------------
(* The state dictionary *)

StateKeys == {"user_query", "session_id", "plan", "tool_results", "final_response"}

\* a plan dictionary without entries
EmptyPlan == PlanDict({}, << >>, EmptyDict, << >>)

\* state.get("plan", {})
StatePlan(st) == IF "plan" \in st.keys THEN st.plan ELSE EmptyPlan

\* insertion-ordered dict as a sequence of entries: d[k] = v
DictSet(d, k, v) ==
    IF \E i \in 1..Len(d) : d[i].name = k
    THEN [i \in 1..Len(d) |-> IF d[i].name = k THEN [name |-> k, value |-> v] ELSE d[i]]
    ELSE Append(d, [name |-> k, value |-> v])

----------------------------------------------------------------------------
(* ExecutorNode *)

\* ToolArgs with a bug: the defaults are the empty question and the empty symbol
ToolArgs_NoDefaults(tool_name, tool_params, st) ==
    IF tool_name = "rag_search"
    THEN ("question" :> Get(tool_params, "question", << >>))
         @@ ("session_id" :> Get(tool_params, "session_id", <<"default">>))
    ELSE ("symbol" :> Get(tool_params, "symbol", << >>))

\* the keyword arguments the Executor passes to tool._run
ToolArgs(tool_name, tool_params, st) ==
    IF tool_name = "rag_search"
    THEN ("question" :> Get(tool_params, "question", st.user_query))
         @@ ("session_id" :> Get(tool_params, "session_id", <<"default">>))
    ELSE ("symbol" :> Get(tool_params, "symbol", <<"AAPL">>))

\* ExecutorStep with a bug: an unregistered name is skipped, nothing is recorded
ExecutorStep_SkipUnknown(acc, tool_name, parameters, st, out) ==
    IF tool_name \in tools
    THEN LET tool_params == Get(parameters, tool_name, EmptyDict)
             result == IF out.kind = "exc"
                       THEN <<"Error executing ", tool_name, ": ">> \o out.text
                       ELSE out.text
         IN  [results |-> DictSet(acc.results, tool_name, result),
              log |-> Append(acc.log, [name |-> tool_name,
                                       args |-> ToolArgs(tool_name, tool_params, st),
                                       out |-> out])]
    ELSE acc

\* ExecutorStep with a bug: an unregistered name replaces the results gathered so far
ExecutorStep_ResetOnUnknown(acc, tool_name, parameters, st, out) ==
    IF tool_name \in tools
    THEN LET tool_params == Get(parameters, tool_name, EmptyDict)
             result == IF out.kind = "exc"
                       THEN <<"Error executing ", tool_name, ": ">> \o out.text
                       ELSE out.text
         IN  [results |-> DictSet(acc.results, tool_name, result),
              log |-> Append(acc.log, [name |-> tool_name,
                                       args |-> ToolArgs(tool_name, tool_params, st),
                                       out |-> out])]
    ELSE [results |-> DictSet(<< >>, tool_name, <<"Tool ", tool_name, " not found">>),
          log |-> acc.log]

\* ExecutorStep with a bug: the error string leaves the exception's message out
ExecutorStep_DropMessage(acc, tool_name, parameters, st, out) ==
    IF tool_name \in tools
    THEN LET tool_params == Get(parameters, tool_name, EmptyDict)
             result == IF out.kind = "exc"
                       THEN <<"Error executing ", tool_name>>
                       ELSE out.text
         IN  [results |-> DictSet(acc.results, tool_name, result),
              log |-> Append(acc.log, [name |-> tool_name,
                                       args |-> ToolArgs(tool_name, tool_params, st),
                                       out |-> out])]
    ELSE [results |-> DictSet(acc.results, tool_name, <<"Tool ", tool_name, " not found">>),
          log |-> acc.log]

\* one iteration of the loop over tools_to_use; out is what tool._run does
ExecutorStep(acc, tool_name, parameters, st, out) ==
    IF tool_name \in tools
    THEN LET tool_params == Get(parameters, tool_name, EmptyDict)
             result == IF out.kind = "exc"
                       THEN <<"Error executing ", tool_name, ": ">> \o out.text
                       ELSE out.text
         IN  [results |-> DictSet(acc.results, tool_name, result),
              log |-> Append(acc.log, [name |-> tool_name,
                                       args |-> ToolArgs(tool_name, tool_params, st),
                                       out |-> out])]
    ELSE [results |-> DictSet(acc.results, tool_name, <<"Tool ", tool_name, " not found">>),
          log |-> acc.log]

RECURSIVE ExecutorLoop(_, _, _, _, _, _)
\* the loop from position i on; outs[i] is the outcome of the call made at position i
ExecutorLoop(acc, tools_to_use, parameters, st, outs, i) ==
    IF i > Len(tools_to_use) THEN acc
    ELSE ExecutorLoop(ExecutorStep(acc, tools_to_use[i], parameters, st, outs[i]),
                      tools_to_use, parameters, st, outs, i + 1)

\* ExecutorNode.__call__: the results and the calls made, or the exception raised
Executor(st, outs) ==
    LET plan == StatePlan(st) IN
    IF plan.kind = "None"
    THEN [exc |-> Raised("AttributeError", <<"'NoneType' object has no attribute 'get'">>),
          results |-> << >>, log |-> << >>]
    ELSE LET tools_to_use == IF "tools_to_use" \in plan.keys THEN plan.tools_to_use
                             ELSE <<"rag_search">>
             parameters == IF "parameters" \in plan.keys THEN plan.parameters ELSE EmptyDict
             run == ExecutorLoop([results |-> << >>, log |-> << >>],
                                 tools_to_use, parameters, st, outs, 1)
         IN  [exc |-> NoExc, results |-> run.results, log |-> run.log]

\* the list the Executor iterates over (empty when it raises before the loop)
PlannedTools(st) ==
    LET plan == StatePlan(st) IN
    IF plan.kind = "None" THEN << >>
    ELSE IF "tools_to_use" \in plan.keys THEN plan.tools_to_use ELSE <<"rag_search">>

----------------------------------------------------------------------------
(* SynthesizerNode *)

NL == "\n"

RECURSIVE ResultLines(_)
\* the "\n{tool_name}: {result}\n" pieces appended to the prompt
ResultLines(tool_results) ==
    IF tool_results = << >> THEN << >>
    ELSE <<NL, tool_results[1].name, ": ">> \o tool_results[1].value \o <<NL>>
         \o ResultLines(Tail(tool_results))

synthesis_prompt(st) ==
    LET plan == StatePlan(st)
        reasoning == IF "reasoning" \in plan.keys THEN plan.reasoning
                     ELSE <<"No reasoning provided">>
    IN  <<"User asked: ">> \o st.user_query \o <<"The following tools were used:">>
        \o reasoning \o <<"Tool Results:">> \o ResultLines(st.tool_results)
        \o <<"Please provide a coherent, helpful response">>

\* combined_results with a bug: the pieces are joined by a single newline
combined_results_OneNewline(tool_results) ==
    Join([i \in 1..Len(tool_results) |->
            <<tool_results[i].name, ": ">> \o tool_results[i].value],
         <<NL>>)

\* "\n\n".join([f"{tool}: {result}" ...])
combined_results(tool_results) ==
    Join([i \in 1..Len(tool_results) |->
            <<tool_results[i].name, ": ">> \o tool_results[i].value],
         <<NL, NL>>)

\* Synthesizer with a bug: no fast path, a single result goes to the model too
Synthesizer_NoFastPath(st, out) ==
    IF StatePlan(st).kind = "None"
    THEN [exc |-> Raised("AttributeError", <<"'NoneType' object has no attribute 'get'">>),
          final_response |-> st.final_response, calls |-> << >>]
    ELSE LET call == [by |-> "synthesizer", method |-> "get_response",
                      prompt |-> synthesis_prompt(st), out |-> out]
         IN  [exc |-> NoExc,
              final_response |-> IF out.kind = "exc" THEN combined_results(st.tool_results)
                                 ELSE out.text,
              calls |-> <<call>>]

\* Synthesizer with a bug: a failed model call is swallowed, final_response stays as it was
Synthesizer_SwallowsFailure(st, out) ==
    IF Len(st.tool_results) = 1
    THEN [exc |-> NoExc, final_response |-> st.tool_results[1].value, calls |-> << >>]
    ELSE IF StatePlan(st).kind = "None"
    THEN [exc |-> Raised("AttributeError", <<"'NoneType' object has no attribute 'get'">>),
          final_response |-> st.final_response, calls |-> << >>]
    ELSE LET call == [by |-> "synthesizer", method |-> "get_response",
                      prompt |-> synthesis_prompt(st), out |-> out]
         IN  [exc |-> NoExc,
              final_response |-> IF out.kind = "exc" THEN st.final_response ELSE out.text,
              calls |-> <<call>>]

\* Synthesizer with a bug: the first value is read before the length is looked at
Synthesizer_IndexesFirst(st, out) ==
    IF Len(st.tool_results) = 0
    THEN [exc |-> Raised("IndexError", <<"list index out of range">>),
          final_response |-> st.final_response, calls |-> << >>]
    ELSE IF Len(st.tool_results) = 1
    THEN [exc |-> NoExc, final_response |-> st.tool_results[1].value, calls |-> << >>]
    ELSE IF StatePlan(st).kind = "None"
    THEN [exc |-> Raised("AttributeError", <<"'NoneType' object has no attribute 'get'">>),
          final_response |-> st.final_response, calls |-> << >>]
    ELSE LET call == [by |-> "synthesizer", method |-> "get_response",
                      prompt |-> synthesis_prompt(st), out |-> out]
         IN  [exc |-> NoExc,
              final_response |-> IF out.kind = "exc" THEN combined_results(st.tool_results)
                                 ELSE out.text,
              calls |-> <<call>>]

\* SynthesizerNode.__call__: the final response and the model call attempted,
\* or the exception raised; out is what the model call does
Synthesizer(st, out) ==
    IF Len(st.tool_results) = 1
    THEN [exc |-> NoExc, final_response |-> st.tool_results[1].value, calls |-> << >>]
    ELSE IF StatePlan(st).kind = "None"
    THEN [exc |-> Raised("AttributeError", <<"'NoneType' object has no attribute 'get'">>),
          final_response |-> st.final_response, calls |-> << >>]
    ELSE LET call == [by |-> "synthesizer", method |-> "get_response",
                      prompt |-> synthesis_prompt(st), out |-> out]
         IN  [exc |-> NoExc,
              final_response |-> IF out.kind = "exc" THEN combined_results(st.tool_results)
                                 ELSE out.text,
              calls |-> <<call>>]

----------------------------------------------------------------------------
(* UnifiedAgenticWorkflow *)

\* initial_state of _run_langgraph_workflow
initial_state(user_query, session_id) ==
    [keys |-> StateKeys, user_query |-> user_query, session_id |-> session_id,
     plan |-> EmptyPlan, tool_results |-> << >>, final_response |-> << >>]

\* RunResult with a bug: the wrong key is read, so the default is returned
RunResult_WrongKey(st) == Str(<<"No response generated">>)

\* result.get("final_response", "No response generated")
RunResult(st) ==
    Str(IF "final_response" \in st.keys THEN st.final_response
        ELSE <<"No response generated">>)

\* the except branch of _run_langgraph_workflow
RunError(e) == Str(<<"Error in LangGraph workflow: ">> \o e.text)

----------------------------------------------------------------------------
(* The quote provider: AlphaVantageMCPClient, StockTools, StockTool *)

\* what the request to the quote server comes to: the kind of data received,
\* or the failure; text is the raw data or the failure's message
McpOutcomes ==
    {[kind |-> k, text |-> <<"data">>, change |-> c, volume |-> v, day |-> d] :
        k \in {"json_quote", "csv_quote"}, c \in {2, -3}, v \in {0, 500},
        d \in {<< >>, <<"2024-01-02">>}}
    \cup {[kind |-> k, text |-> x, change |-> 0, volume |-> 0, day |-> << >>] :
        k \in {"raw", "bad_csv"}, x \in {<<"data">>, << >>}}
    \cup {[kind |-> "no_content", text |-> << >>, change |-> 0, volume |-> 0, day |-> << >>]}
    \cup {[kind |-> "request_failed", text |-> <<"Request failed: ">> \o m,
           change |-> 0, volume |-> 0, day |-> << >>] : m \in {<<"timeout">>}}

NoUpper == Raised("AttributeError", <<"'NoneType' object has no attribute 'upper'">>)

\* AlphaVantageMCPClient.get_stock_quote with _parse_stock_quote: the quote dictionary
get_stock_quote(symbol, mcp) ==
    IF symbol.kind # "str" THEN ("error" :> NoUpper.text) @@ ("symbol" :> symbol)
    ELSE CASE mcp.kind = "json_quote" ->
                ("symbol" :> symbol) @@ ("price" :> 189) @@ ("change" :> mcp.change)
                @@ ("change_percent" :> <<"1.0%">>) @@ ("volume" :> mcp.volume)
                @@ ("latest_trading_day" :> mcp.day) @@ ("previous_close" :> 187)
                @@ ("success" :> TRUE)
           [] mcp.kind = "csv_quote" ->
                ("symbol" :> symbol) @@ ("price" :> 189) @@ ("change" :> mcp.change)
                @@ ("change_percent" :> <<"1.0%">>) @@ ("volume" :> mcp.volume)
                @@ ("latest_trading_day" :> mcp.day) @@ ("previous_close" :> 187)
                @@ ("open" :> 188) @@ ("high" :> 190) @@ ("low" :> 186)
                @@ ("success" :> TRUE)
           [] mcp.kind = "raw" ->
                ("symbol" :> symbol) @@ ("raw_data" :> mcp.text) @@ ("success" :> TRUE)
           [] mcp.kind = "bad_csv" ->
                ("symbol" :> symbol) @@ ("error" :> <<"Failed to parse data: ">>)
                @@ ("raw_data" :> mcp.text) @@ ("success" :> FALSE)
           [] mcp.kind = "no_content" ->
                ("error" :> <<"No data received">>) @@ ("symbol" :> symbol)
           [] OTHER ->
                ("error" :> mcp.text) @@ ("symbol" :> symbol)

\* f"${x:.2f}" for a whole amount
Money(x) == <<"$", ToString(x), ".00">>

\* StockTools.get_current_price: the text, or the exception that leaves it
StockTools_get_current_price(symbol, mcp) ==
    LET quote == get_stock_quote(symbol, mcp) IN
    IF symbol.kind # "str" THEN NoUpper
    ELSE LET SYM == Upper(symbol.text) IN
         IF Get(quote, "success", FALSE) /\ "price" \in DOMAIN quote
         THEN LET change == Get(quote, "change", 0)
                  volume == Get(quote, "volume", 0)
                  trading_day == Get(quote, "latest_trading_day", << >>)
                  direction == IF change >= 0 THEN "up" ELSE "down"
                  change_text == Money(IF change >= 0 THEN change ELSE -change)
                                 \o <<" (">> \o Get(quote, "change_percent", <<"0%">>) \o <<")">>
              IN  Str(SYM \o <<" is currently trading at ">> \o Money(quote["price"])
                      \o <<", ", direction, " ">> \o change_text \o <<" from previous close.">>
                      \o (IF volume > 0
                          THEN <<" Trading volume: ", ToString(volume), " shares.">>
                          ELSE << >>)
                      \o (IF trading_day # << >>
                          THEN <<" Last updated: ">> \o trading_day \o <<".">>
                          ELSE << >>)
                      \o (IF "open" \in DOMAIN quote
                          THEN <<" Day's range: ">> \o Money(quote["low"]) \o <<" - ">>
                               \o Money(quote["high"]) \o <<". Opened at ">>
                               \o Money(quote["open"]) \o <<".">>
                          ELSE << >>))
         ELSE IF "raw_data" \in DOMAIN quote
         THEN Str(<<"Stock data for ">> \o SYM \o <<": ">> \o quote["raw_data"])
         ELSE Str(<<"Unable to get current price for ">> \o SYM \o <<". ">>
                  \o Get(quote, "error", <<"Unknown error">>))

\* str(x) inside an f-string
Shown(v) == IF v.kind = "str" THEN v.text ELSE <<"None">>

\* StockTool._run without its try/except: whatever get_current_price does
StockTool_run_NoCatch(symbol, mcp) == StockTools_get_current_price(symbol, mcp)

\* StockTool._run
StockTool_run(symbol, mcp) ==
    LET result == StockTools_get_current_price(symbol, mcp) IN
    IF result.kind = "exc"
    THEN Str(<<"Error getting stock data for ">> \o Shown(symbol) \o <<": ">> \o result.text)
    ELSE result

----------------------------------------------------------------------------
(* The knowledge-base provider: RAGChatSystem.chat, RAGTool *)

\* what the retrieval chain does with a question: an answer, or an exception
ChainOutcomes == {Str(a) : a \in {<<"answer">>, << >>}} \cup {Raised("Exception", <<"no index">>)}

\* parameters of RAGChatSystem.chat, and the keywords RAGTool._run passes
chat_parameters == {"question"}
chat_keywords == {"session_id", "question", "use_agents"}

\* RAGChatSystem.chat(question): the "response" of the dictionary it returns
RAGChatSystem_chat(question, chain) ==
    IF chain.kind = "exc" THEN Str(<<"Sorry, I encountered an error: ">> \o chain.text)
    ELSE Str(chain.text)

\* self.rag_system.chat(session_id=..., question=..., use_agents=False)["response"]
RAGTool_chat_call(question, session_id, chain) ==
    IF chat_keywords \subseteq chat_parameters
    THEN RAGChatSystem_chat(question, chain)
    ELSE Raised("TypeError", <<"chat() got an unexpected keyword argument 'session_id'">>)

\* RAGTool._run
RAGTool_run(question, session_id, chain) ==
    LET result == RAGTool_chat_call(question, session_id, chain) IN
    IF result.kind = "exc" THEN Str(<<"Error querying RAG system: ">> \o result.text)
    ELSE result

\* the record kept of a provider called on its own
NoCall == [name |-> "none", question |-> << >>, session_id |-> << >>,
           symbol |-> NoneVal, collaborator |-> "none", failed |-> FALSE,
           chain |-> NoneVal]

\* get_status with a bug: the mode is reported as "langgraph" whatever it is
get_status_FixedMode(self_mode) ==
    ("mode" :> "langgraph") @@ ("langgraph_available" :> (self_mode = "langgraph"))
    @@ ("nodes" :> <<"planner", "executor", "synthesizer">>) @@ ("status" :> "ready")

\* UnifiedAgenticWorkflow.get_status; mode is "langgraph" exactly when
\* LANGGRAPH_AVAILABLE
get_status(self_mode) ==
    ("mode" :> self_mode) @@ ("langgraph_available" :> (self_mode = "langgraph"))
    @@ ("nodes" :> <<"planner", "executor", "synthesizer">>) @@ ("status" :> "ready")

\* self.workflow.invoke when self.workflow is None
NoWorkflow == Raised("AttributeError", <<"'NoneType' object has no attribute 'invoke'">>)

----------------------------------------------------------------------------
(* Inputs of the exploration *)

Queries ==
    { << >>, <<"hello">>, <<"price", "tsla">>, <<"Tesla", "price">>, <<"Metadata">>,
      <<"Tesla", "intc">> }
SessionIds == { <<"default">>, <<"s1">> }

\* capability names a hand-made plan may hold: the registered ones and an unknown one
ToolNames == tools \cup {"web_search"}

\* tools_to_use is an ordered set of names: no name twice
ToolLists ==
    {t \in UNION {[1..k -> ToolNames] : k \in 0..MaxTools} :
        \A i, j \in 1..Len(t) : t[i] = t[j] => i = j}

ParamChoices ==
    { EmptyDict,
      "stock_quote" :> EmptyDict,
      "rag_search" :> ("question" :> <<"other">>),
      ("rag_search" :> (("question" :> <<"other">>) @@ ("session_id" :> <<"s1">>)))
          @@ ("stock_quote" :> ("symbol" :> <<"TSLA">>)) }

\* states handed directly to the Executor
GivenPlans ==
    {NonePlan, EmptyPlan}
    \cup {Plan(t, p, <<"given">>) : t \in ToolLists, p \in ParamChoices}

----------------------------------------------------------------------------
(* Ingestion: ingest_pdfs, DocumentProcessor, VectorStore, POST /upload *)

\* file names met in the exploration
FileNames == {"a.pdf", "B.PDF", "notes.txt"}

\* str.lower() on a file name
LowerName(f) == CASE f = "B.PDF" -> "b.pdf" [] OTHER -> f

\* str.endswith('.pdf')
EndsWithPdf(f) == f \in {"a.pdf", "b.pdf"}

\* f.lower().endswith('.pdf')
IsPdf(f) == EndsWithPdf(LowerName(f))

PdfNames == {f \in FileNames : IsPdf(f)}

\* processed_files.json is not there
NoLog == [exists |-> FALSE, files |-> {}]

load_processed_files(log) == IF log.exists THEN log.files ELSE {}

save_processed_files(processed_files) == [exists |-> TRUE, files |-> processed_files]

\* DocumentProcessor.process_pdf: the chunk dictionaries of a file whose text
\* splits into n chunks (none when no text is extracted)
process_pdf(f, n) == {[kind |-> "dict", source |-> f, chunk_id |-> k] : k \in 0..(n - 1)}

\* langchain.schema.Document built from a chunk dictionary
Document(chunk) == [kind |-> "Document", source |-> chunk.source, chunk_id |-> chunk.chunk_id]

\* VectorStore.add_documents: doc['text'] needs a dictionary; then the chunks
\* are added to the index, when it is reachable
add_documents(documents, idx, reachable) ==
    IF \E d \in documents : d.kind # "dict"
    THEN [exc |-> Raised("TypeError", <<"'Document' object is not subscriptable">>),
          index |-> idx]
    ELSE IF ~reachable
    THEN [exc |-> Raised("Exception", <<"index unreachable">>), index |-> idx]
    ELSE [exc |-> NoExc,
          index |-> [f \in DOMAIN idx |->
                        IF \E d \in documents : d.source = f THEN idx[f] + 1 ELSE idx[f]]]

\* no ingest_pdfs call yet
NoIngest ==
    [by |-> "none", outcome |-> "none", uploaded |-> {}, new_files |-> {},
     chunks |-> EmptyDict, reachable |-> FALSE, error |-> << >>, reported |-> {}]

\* ingest_pdfs: the log file and the index it leaves, and what it met; chunks
\* tells how many chunks each file's text gives
ingest_pdfs(dir, log, idx, chunks, reachable) ==
    LET processed_files == load_processed_files(log)
        pdf_files == {f \in dir.files : IsPdf(f)}
        new_files == {f \in pdf_files : f \notin processed_files}
        all_documents ==
            UNION {{Document(c) : c \in process_pdf(f, chunks[f])} : f \in new_files}
        marked == processed_files \cup {f \in new_files : process_pdf(f, chunks[f]) # {}}
        added == add_documents(all_documents, idx, reachable)
        met == [NoIngest EXCEPT !.new_files = new_files,
                                !.chunks = [f \in new_files |-> chunks[f]],
                                !.reachable = reachable]
        stop(why) == [log |-> log, index |-> idx,
                      run |-> [NoIngest EXCEPT !.outcome = why, !.reachable = reachable]]
    IN  IF ~dir.exists THEN stop("no docs directory")
        ELSE IF pdf_files = {} THEN stop("no pdf files")
        ELSE IF new_files = {} THEN stop("nothing new")
        ELSE IF all_documents = {}
        THEN [log |-> log, index |-> idx,
              run |-> [met EXCEPT !.outcome = "no documents to store"]]
        ELSE IF added.exc.kind = "exc"
        THEN [log |-> log, index |-> idx,
              run |-> [met EXCEPT !.outcome = "error storing documents",
                                  !.error = added.exc.text]]
        ELSE [log |-> save_processed_files(marked), index |-> added.index,
              run |-> [met EXCEPT !.outcome = "ingestion complete"]]

\* what the parser and the index do during one ingest_pdfs call
ChunkCounts == [PdfNames -> 0..MaxChunks]

\* ingest_pdfs() is called
IngestPdfs ==
    /\ \E chunks \in ChunkCounts, reachable \in BOOLEAN :
          LET r == ingest_pdfs(docs, processed_files_json, index, chunks, reachable) IN
          /\ processed_files_json' = r.log
          /\ index' = r.index
          /\ ingest' = [r.run EXCEPT !.by = "ingest_pdfs"]
    /\ UNCHANGED <<docs, workflow_vars, api_vars>>

\* reset_and_reprocess() is called: the log is deleted, then ingest_pdfs runs
ResetAndReprocess ==
    /\ \E chunks \in ChunkCounts, reachable \in BOOLEAN :
          LET r == ingest_pdfs(docs, NoLog, index, chunks, reachable) IN
          /\ processed_files_json' = r.log
          /\ index' = r.index
          /\ ingest' = [r.run EXCEPT !.by = "reset_and_reprocess"]
    /\ UNCHANGED <<docs, workflow_vars, api_vars>>

\* POST /upload: the PDF files are saved into docs, ingest_pdfs runs, and the
\* processed files are reported
UploadFiles ==
    /\ \E files \in SUBSET FileNames \ {{}}, chunks \in ChunkCounts, reachable \in BOOLEAN :
          LET uploaded_files == {f \in files : IsPdf(f)}
              saved == [exists |-> TRUE, files |-> docs.files \cup uploaded_files]
              r == ingest_pdfs(saved, processed_files_json, index, chunks, reachable)
          IN  /\ docs' = saved
              /\ processed_files_json' = r.log
              /\ index' = r.index
              /\ ingest' = [r.run EXCEPT !.by = "upload", !.uploaded = uploaded_files,
                                         !.reported = load_processed_files(r.log)]
    /\ UNCHANGED <<workflow_vars, api_vars>>

----------------------------------------------------------------------------
(* The chat API: sessions, POST /chat, GET /chat/history/{id},             *)
(* DELETE /chat/{id}                                                        *)

\* session_id values of a ChatRequest, and the questions asked
RequestSessionIds == {NoneVal} \cup {Str(s) : s \in SessionIds}
Questions == { <<"q1">>, <<"q2">> }

\* what the retrieval chain of a session does with a question
ApiChainOutcomes == {Str(<<"answer">>), Raised("Exception", <<"no index">>)}

NoResponse ==
    [kind |-> "none", status |-> 0, session_id |-> << >>, answer |-> << >>,
     messages |-> << >>, total_messages |-> 0, success |-> FALSE]

\* SessionIdOf with a bug: every request is served by the default session
SessionIdOf_AlwaysDefault(session_id) == <<"default">>

\* request.session_id or "default"
SessionIdOf(session_id) ==
    IF session_id.kind = "str" /\ session_id.text # << >> THEN session_id.text
    ELSE <<"default">>

\* get_session: the sessions once a RAGChatSystem, with an empty memory, has
\* been created for session_id if there was none
get_session(sess, session_id) ==
    IF session_id \in DOMAIN sess THEN sess ELSE (session_id :> << >>) @@ sess

\* the memory of a RAGChatSystem after chat(question): the chain saves the
\* question and its answer when it returns, nothing when it raises
memory_after_chat(memory, question, chain) ==
    IF chain.kind = "exc" THEN memory
    ELSE memory \o <<[type |-> "human", content |-> question],
                     [type |-> "ai", content |-> chain.text]>>

\* POST /chat: the sessions and the response; created tells whether
\* RAGChatSystem() succeeds when it is called
chat(sess, request, created, chain) ==
    LET session_id == SessionIdOf(request.session_id) IN
    IF session_id \notin DOMAIN sess /\ ~created
    THEN [sessions |-> sess,
          response |-> [NoResponse EXCEPT !.kind = "error", !.status = 500]]
    ELSE LET got == get_session(sess, session_id)
             result == RAGChatSystem_chat(request.question, chain)
         IN  [sessions |-> [got EXCEPT ![session_id] =
                               memory_after_chat(@, request.question, chain)],
              response |-> [NoResponse EXCEPT !.kind = "chat", !.status = 200,
                                              !.answer = result.text,
                                              !.session_id = session_id]]

\* GET /chat/history/{session_id}: the messages of the response
get_chat_history(sess, session_id) ==
    IF session_id \notin DOMAIN sess THEN << >>
    ELSE [i \in 1..Len(sess[session_id]) |->
            [role |-> IF sess[session_id][i].type = "human" THEN "user" ELSE "assistant",
             content |-> sess[session_id][i].content]]

\* DELETE /chat/{session_id}: the sessions left
clear_chat_session(sess, session_id) ==
    [s \in DOMAIN sess \ {session_id} |-> sess[s]]

\* POST /chat is handled
PostChat ==
    /\ Len(requests) < MaxRequests
    /\ \E id \in RequestSessionIds, q \in Questions, created \in BOOLEAN,
          chain \in ApiChainOutcomes :
          LET isnew == SessionIdOf(id) \notin DOMAIN sessions
              r == chat(sessions, [question |-> q, session_id |-> id], created, chain)
          IN  /\ isnew \/ created    \* the constructor's outcome matters only when it runs
              /\ sessions' = r.sessions
              /\ response' = r.response
              /\ requests' = Append(requests,
                                [op |-> "chat", session_id |-> id, question |-> q,
                                 chain |-> IF r.response.status = 200 THEN chain ELSE NoExc,
                                 created |-> isnew /\ created,
                                 failed |-> r.response.status # 200])
    /\ UNCHANGED <<workflow_vars, ingest_vars>>

\* GET /chat/history/{session_id} is handled
GetChatHistory ==
    /\ Len(requests) < MaxRequests
    /\ \E id \in SessionIds :
          LET messages == get_chat_history(sessions, id) IN
          /\ response' = [NoResponse EXCEPT !.kind = "history", !.status = 200,
                                            !.session_id = id, !.messages = messages,
                                            !.total_messages = Len(messages)]
          /\ requests' = Append(requests,
                            [op |-> "history", session_id |-> Str(id), question |-> << >>,
                             chain |-> NoExc, created |-> FALSE, failed |-> FALSE])
    /\ UNCHANGED <<sessions, workflow_vars, ingest_vars>>

\* DELETE /chat/{session_id} is handled
DeleteChat ==
    /\ Len(requests) < MaxRequests
    /\ \E id \in SessionIds :
          /\ sessions' = clear_chat_session(sessions, id)
          /\ response' = [NoResponse EXCEPT !.kind = "delete", !.status = 200,
                                            !.session_id = id,
                                            !.success = (id \in DOMAIN sessions)]
          /\ requests' = Append(requests,
                            [op |-> "delete", session_id |-> Str(id), question |-> << >>,
                             chain |-> NoExc, created |-> FALSE, failed |-> FALSE])
    /\ UNCHANGED <<workflow_vars, ingest_vars>>

----------------------------------------------------------------------------
(* Actions *)

Init ==
    /\ pc = "idle"
    /\ entry = "none"
    /\ state = [keys |-> {}, user_query |-> << >>, session_id |-> << >>,
                plan |-> EmptyPlan, tool_results |-> << >>, final_response |-> << >>]
    /\ ret = NoneVal
    /\ exc = NoExc
    /\ llm_log = << >>
    /\ tool_log = << >>
    /\ stage_log = << >>
    /\ direct = NoCall
    /\ mode \in {"langgraph", "simple"}
    /\ status = EmptyDict
    /\ docs = [exists |-> FALSE, files |-> {}]
    /\ processed_files_json = NoLog
    /\ index = [f \in PdfNames |-> 0]
    /\ ingest = NoIngest
    /\ sessions = EmptyDict
    /\ requests = << >>
    /\ response = NoResponse

\* UnifiedAgenticWorkflow.run(user_query, session_id) is called
Run ==
    /\ pc = "idle"
    /\ mode = "langgraph"
    /\ \E q \in Queries, s \in SessionIds : state' = initial_state(q, s)
    /\ pc' = "planner"
    /\ entry' = "run"
    /\ UNCHANGED <<ret, exc, llm_log, tool_log, stage_log, direct, mode, status>>
    /\ UNCHANGED <<ingest_vars, api_vars>>

\* the planner node is called on its own with a state holding only the query
CallPlanner ==
    /\ pc = "idle"
    /\ \E q \in Queries : state' = [state EXCEPT !.keys = {"user_query"}, !.user_query = q]
    /\ pc' = "planner"
    /\ entry' = "planner"
    /\ UNCHANGED <<ret, exc, llm_log, tool_log, stage_log, direct, mode, status>>
    /\ UNCHANGED <<ingest_vars, api_vars>>

\* the executor and the synthesizer are run on a given plan
CallExecutor ==
    /\ pc = "idle"
    /\ \E q \in {<<"hello">>}, p \in GivenPlans :
          state' = [state EXCEPT !.keys = {"user_query", "session_id", "plan"},
                                 !.user_query = q, !.session_id = <<"s1">>, !.plan = p]
    /\ pc' = "executor"
    /\ entry' = "executor"
    /\ UNCHANGED <<ret, exc, llm_log, tool_log, stage_log, direct, mode, status>>
    /\ UNCHANGED <<ingest_vars, api_vars>>

\* Escapes with a bug: run has no except branch, the exception reaches the caller
Escapes_NoCatch(e) ==
    /\ pc' = "done"
    /\ exc' = e
    /\ ret' = ret

\* where an exception raised by a node goes: run's except branch, or the caller
Escapes(e) ==
    /\ pc' = "done"
    /\ IF entry = "run" THEN ret' = RunError(e) /\ exc' = exc
                        ELSE exc' = e /\ ret' = ret

PlannerNode ==
    /\ pc = "planner"
    /\ \E out \in LLMClient_generate_response :
          /\ llm_log' = Append(llm_log, [by |-> "planner", method |-> "generate_response",
                                         prompt |-> state.user_query, out |-> out])
          /\ state' = [state EXCEPT
                         !.keys = @ \cup {"plan"},
                         !.plan = IF out.kind = "exc" THEN PlanningErrorPlan(out.text)
                                  ELSE _extract_plan_from_response(out.text, state.user_query)]
    /\ stage_log' = Append(stage_log, "planner")
    /\ pc' = IF entry = "run" THEN "executor" ELSE "done"
    /\ UNCHANGED <<entry, ret, exc, tool_log, direct, mode, status>>
    /\ UNCHANGED <<ingest_vars, api_vars>>

\* ExecutorNode with a bug: the plan is emptied once it has been executed
ExecutorNode_ConsumesPlan ==
    /\ pc = "executor"
    /\ stage_log' = Append(stage_log, "executor")
    /\ \E outs \in [1..Len(PlannedTools(state)) -> ToolOutcomes] :
          LET r == Executor(state, outs) IN
          IF r.exc.kind = "exc"
          THEN /\ Escapes(r.exc)
               /\ UNCHANGED <<state, tool_log>>
          ELSE /\ state' = [state EXCEPT !.keys = @ \cup {"tool_results"},
                                         !.tool_results = r.results,
                                         !.plan = EmptyPlan]
               /\ tool_log' = tool_log \o r.log
               /\ pc' = "synthesizer"
               /\ UNCHANGED <<ret, exc>>
    /\ UNCHANGED <<entry, llm_log, direct, mode, status>>
    /\ UNCHANGED <<ingest_vars, api_vars>>

ExecutorNode ==
    /\ pc = "executor"
    /\ stage_log' = Append(stage_log, "executor")
    /\ \E outs \in [1..Len(PlannedTools(state)) -> ToolOutcomes] :
          LET r == Executor(state, outs) IN
          IF r.exc.kind = "exc"
          THEN /\ Escapes(r.exc)
               /\ UNCHANGED <<state, tool_log>>
          ELSE /\ state' = [state EXCEPT !.keys = @ \cup {"tool_results"},
                                         !.tool_results = r.results]
               /\ tool_log' = tool_log \o r.log
               /\ pc' = "synthesizer"
               /\ UNCHANGED <<ret, exc>>
    /\ UNCHANGED <<entry, llm_log, direct, mode, status>>
    /\ UNCHANGED <<ingest_vars, api_vars>>

\* SynthesizerNode with a bug: an edge leads back from the synthesizer to the planner
SynthesizerNode_BackToPlanner ==
    /\ pc = "synthesizer"
    /\ stage_log' = Append(stage_log, "synthesizer")
    /\ \E out \in LLMClient_get_response :
          LET r == Synthesizer(state, out) IN
          IF r.exc.kind = "exc"
          THEN /\ Escapes(r.exc)
               /\ UNCHANGED <<state, llm_log>>
          ELSE /\ state' = [state EXCEPT !.keys = @ \cup {"final_response"},
                                         !.final_response = r.final_response]
               /\ llm_log' = llm_log \o r.calls
               /\ pc' = IF entry = "run" THEN "planner" ELSE "done"
               /\ ret' = ret
               /\ exc' = exc
    /\ UNCHANGED <<entry, tool_log, direct, mode, status>>
    /\ UNCHANGED <<ingest_vars, api_vars>>

SynthesizerNode ==
    /\ pc = "synthesizer"
    /\ stage_log' = Append(stage_log, "synthesizer")
    /\ \E out \in LLMClient_get_response :
          LET r == Synthesizer(state, out) IN
          IF r.exc.kind = "exc"
          THEN /\ Escapes(r.exc)
               /\ UNCHANGED <<state, llm_log>>
          ELSE /\ state' = [state EXCEPT !.keys = @ \cup {"final_response"},
                                         !.final_response = r.final_response]
               /\ llm_log' = llm_log \o r.calls
               /\ pc' = "done"
               /\ ret' = IF entry = "run" THEN RunResult(state') ELSE ret
               /\ exc' = exc
    /\ UNCHANGED <<entry, tool_log, direct, mode, status>>
    /\ UNCHANGED <<ingest_vars, api_vars>>

\* UnifiedAgenticWorkflow.run in "simple" mode: self.workflow is None
RunSimple ==
    /\ pc = "idle"
    /\ mode = "simple"
    /\ \E q \in Queries, s \in SessionIds : state' = initial_state(q, s)
    /\ entry' = "run"
    /\ pc' = "done"
    /\ ret' = RunError(NoWorkflow)
    /\ exc' = exc
    /\ UNCHANGED <<llm_log, tool_log, stage_log, direct, mode, status>>
    /\ UNCHANGED <<ingest_vars, api_vars>>

\* UnifiedAgenticWorkflow.get_status is called
GetStatus ==
    /\ pc = "idle"
    /\ status' = get_status(mode)
    /\ pc' = "done"
    /\ entry' = "get_status"
    /\ UNCHANGED <<state, ret, exc, llm_log, tool_log, stage_log, direct, mode>>
    /\ UNCHANGED <<ingest_vars, api_vars>>

\* RAGTool._run(question, session_id) is called
CallRAGTool ==
    /\ pc = "idle"
    /\ \E q \in Queries, sid \in SessionIds, chain \in ChainOutcomes :
          /\ direct' = [NoCall EXCEPT !.name = "rag_search", !.question = q,
                                    !.session_id = sid, !.collaborator = "chat",
                                    !.failed = (chain.kind = "exc"), !.chain = chain]
          /\ LET out == RAGTool_run(q, sid, chain) IN
             IF out.kind = "exc" THEN exc' = out /\ ret' = ret
                                 ELSE ret' = out /\ exc' = exc
    /\ pc' = "done"
    /\ entry' = "rag_tool"
    /\ UNCHANGED <<state, llm_log, tool_log, stage_log, mode, status>>
    /\ UNCHANGED <<ingest_vars, api_vars>>

\* StockTool._run(symbol) is called
CallStockTool ==
    /\ pc = "idle"
    /\ \E sym \in {Str(<<"tsla">>), Str(<< >>), NoneVal}, mcp \in McpOutcomes :
          /\ direct' = [NoCall EXCEPT !.name = "stock_quote", !.symbol = sym,
                                    !.collaborator = mcp.kind,
                                    !.failed = (mcp.kind \in {"request_failed", "no_content",
                                                              "bad_csv"})]
          /\ LET out == StockTool_run(sym, mcp) IN
             IF out.kind = "exc" THEN exc' = out /\ ret' = ret
                                 ELSE ret' = out /\ exc' = exc
    /\ pc' = "done"
    /\ entry' = "stock_tool"
    /\ UNCHANGED <<state, llm_log, tool_log, stage_log, mode, status>>
    /\ UNCHANGED <<ingest_vars, api_vars>>

Next ==
    \/ CallRAGTool \/ CallStockTool \/ RunSimple \/ GetStatus
    \/ Run \/ CallPlanner \/ CallExecutor \/ PlannerNode \/ ExecutorNode \/ SynthesizerNode

Spec == Init /\ [][Next]_vars

\* the ingestion on its own
NextIngest == IngestPdfs \/ ResetAndReprocess \/ UploadFiles

SpecIngest == Init /\ [][NextIngest]_vars

\* the chat API on its own
NextApi == PostChat \/ GetChatHistory \/ DeleteChat

SpecApi == Init /\ [][NextApi]_vars

----------------------------------------------------------------------------
(* Vocabulary of the properties *)

Range(f) == {f[i] : i \in DOMAIN f}

DictKeys(d) == {d[i].name : i \in 1..Len(d)}

\* d[k], for a key the dict holds
DictValue(d, k) == d[CHOOSE i \in 1..Len(d) : d[i].name = k].value

LastStage == IF stage_log = << >> THEN "none" ELSE stage_log[Len(stage_log)]

PlannerCompleted == stage_log # << >> /\ stage_log[1] = "planner"

\* the Executor ran and returned (it did not raise)
ExecutorCompleted ==
    \/ LastStage = "executor" /\ pc = "synthesizer"
    \/ LastStage = "synthesizer"

\* the Synthesizer ran and returned (it did not raise)
SynthesizerCompleted == LastStage = "synthesizer" /\ exc.kind = "None"

\* the plan in the state is a Plan object with its three fields
IsPlanObject(p) == p.kind = "dict" /\ PlanKeys \subseteq p.keys

\* the calls of the model made by the Synthesizer
SynthesizerCalls == {i \in 1..Len(llm_log) : llm_log[i].by = "synthesizer"}

\* the registered names of a tools_to_use list, in order
KnownOnly(t) == SelectSeq(t, LAMBDA n : n \in tools)

\* what each provider invocation did, in call order
LoggedOuts == [i \in 1..Len(tool_log) |-> tool_log[i].out]

\* the Executor's loop on the registered names alone, the providers doing as outs says
OnKnownOnly(outs) ==
    ExecutorLoop([results |-> << >>, log |-> << >>], KnownOnly(state.plan.tools_to_use),
                 state.plan.parameters, state, outs, 1)

----------------------------------------------------------------------------
(* C1: run never raises to its caller, is never stuck before it returns,   *)
(* and what it returns is a string, whatever the query, the model and the  *)
(* providers do.                                                           *)
C1_RunReturnsString ==
    entry = "run" =>
        /\ exc.kind = "None"
        /\ pc # "done" => ENABLED Next
        /\ pc = "done" => ret.kind = "str"

\* a run in which a provider raised and run still returned a string
C1_Witness ==
    /\ entry = "run" /\ pc = "done" /\ ret.kind = "str"
    /\ \E i \in 1..Len(tool_log) : tool_log[i].out.kind = "exc"

(* C2: in a run whose plan names one capability, that capability is called *)
(* once, rag_search with the original query as its question and            *)
(* stock_quote with the plan's symbol, and when the call returns a string  *)
(* run returns exactly that string.                                        *)
C2_SingleCapabilityVerbatim ==
    (entry = "run" /\ pc = "done" /\ IsPlanObject(state.plan)
        /\ Len(state.plan.tools_to_use) = 1) =>
        /\ Len(tool_log) = 1
        /\ tool_log[1].name = state.plan.tools_to_use[1]
        /\ tool_log[1].name = "rag_search" =>
               tool_log[1].args["question"] = state.user_query
        /\ tool_log[1].name = "stock_quote" =>
               tool_log[1].args["symbol"] = state.plan.parameters["stock_quote"]["symbol"]
        /\ tool_log[1].out.kind = "str" => ret = Str(tool_log[1].out.text)

\* a run routed to rag_search whose provider answered, and run returned the answer
C2_Witness ==
    /\ entry = "run" /\ pc = "done"
    /\ Len(tool_log) = 1 /\ tool_log[1].name = "rag_search"
    /\ tool_log[1].out = Str(<<"answer">>)
    /\ ret = Str(<<"answer">>)

(* C3: once the Planner has run, the plan in the state is a Plan object    *)
(* with tools_to_use, parameters and reasoning.                            *)
C3_PlannerStoresPlanObject ==
    PlannerCompleted => exc.kind = "None" /\ IsPlanObject(state.plan)

(* C4: on every state the Planner leaves behind, the Executor returns      *)
(* without raising and the pipeline goes on to the Synthesizer.            *)
C4_ExecutorNeverRaises ==
    (entry = "run" /\ LastStage = "executor") => pc = "synthesizer"

(* C5: after the Executor has run on a Plan, the keys of tool_results are  *)
(* exactly the names of the plan's tools_to_use, each once.                *)
C5_OneEntryPerRequestedName ==
    (ExecutorCompleted /\ IsPlanObject(state.plan)) =>
        /\ DictKeys(state.tool_results) = Range(state.plan.tools_to_use)
        /\ Cardinality(DictKeys(state.tool_results)) = Len(state.tool_results)

\* a plan naming a registered capability that raised and an unknown one
C5_Witness ==
    /\ ExecutorCompleted /\ IsPlanObject(state.plan)
    /\ Len(state.plan.tools_to_use) = 2
    /\ "web_search" \in Range(state.plan.tools_to_use)
    /\ \E i \in 1..Len(tool_log) : tool_log[i].out.kind = "exc"

(* C6: a name of tools_to_use that is not registered gets the "not found"  *)
(* string and no provider is invoked for it; the registered names are      *)
(* invoked and recorded exactly as the Executor does on the same plan      *)
(* with the unregistered names taken out.                                  *)
C6_UnknownNameIsolated ==
    (ExecutorCompleted /\ IsPlanObject(state.plan)) =>
        LET t == state.plan.tools_to_use IN
        /\ \A n \in Range(t) \ tools :
              /\ n \in DictKeys(state.tool_results)
              /\ DictValue(state.tool_results, n) = <<"Tool ", n, " not found">>
              /\ \A i \in 1..Len(tool_log) : tool_log[i].name # n
        /\ Len(tool_log) = Len(KnownOnly(t))
        /\ OnKnownOnly(LoggedOuts).log = tool_log
        /\ \A n \in Range(t) \cap tools :
              /\ n \in DictKeys(state.tool_results)
              /\ DictValue(state.tool_results, n)
                    = DictValue(OnKnownOnly(LoggedOuts).results, n)

\* an unknown name listed before a registered one, which was then invoked and answered
C6_Witness ==
    /\ ExecutorCompleted /\ IsPlanObject(state.plan)
    /\ state.plan.tools_to_use = <<"web_search", "rag_search">>
    /\ DictValue(state.tool_results, "rag_search") = <<"answer">>

(* C7: when the invocation of capability c raises with message m, the      *)
(* entry under c holds "Error executing" and m, every registered name of   *)
(* the plan is still invoked, and the other calls and entries are those of *)
(* the same plan with c answering instead of raising.                      *)
C7_FailureIsolated ==
    (ExecutorCompleted /\ IsPlanObject(state.plan)) =>
        \A i \in 1..Len(tool_log) : tool_log[i].out.kind = "exc" =>
            LET c == tool_log[i].name
                m == tool_log[i].out.text
                t == state.plan.tools_to_use
            IN  /\ c \in DictKeys(state.tool_results)
                /\ IsSubstr(<<"Error executing ">>, DictValue(state.tool_results, c))
                /\ IsSubstr(m, DictValue(state.tool_results, c))
                /\ Len(tool_log) = Len(KnownOnly(t))
                /\ LET R == OnKnownOnly([LoggedOuts EXCEPT ![i] = Str(<<"answer">>)]) IN
                   /\ \A j \in 1..Len(tool_log) : j # i => R.log[j] = tool_log[j]
                   /\ \A n \in (Range(t) \cap tools) \ {c} :
                         /\ n \in DictKeys(state.tool_results)
                         /\ DictValue(state.tool_results, n) = DictValue(R.results, n)

\* the first of two registered capabilities raised and the second was still invoked
C7_Witness ==
    /\ ExecutorCompleted /\ Len(tool_log) = 2
    /\ tool_log[1].out.kind = "exc" /\ tool_log[2].out = Str(<<"answer">>)
    /\ DictValue(state.tool_results, tool_log[2].name) = <<"answer">>

(* C8: with exactly one entry in tool_results the Synthesizer stores that  *)
(* entry's value as final_response and attempts no model call.             *)
C8_SingleResultPassthrough ==
    (SynthesizerCompleted /\ Len(state.tool_results) = 1) =>
        /\ "final_response" \in state.keys
        /\ state.final_response = state.tool_results[1].value
        /\ SynthesizerCalls = {}

\* a run with one result: the only model call is the Planner's
C8_Witness ==
    /\ SynthesizerCompleted /\ entry = "run"
    /\ Len(state.tool_results) = 1 /\ state.tool_results[1].value = <<"answer">>
    /\ state.final_response = <<"answer">>
    /\ Len(llm_log) = 1

\* the "name: result" rendering of the entries of tool_results, in order
NameResultLines ==
    [i \in 1..Len(state.tool_results) |->
        <<state.tool_results[i].name, ": ">> \o state.tool_results[i].value]

SynthesisCallFailed == \E i \in SynthesizerCalls : llm_log[i].out.kind = "exc"

(* C9, as stated: when the Synthesizer's model call fails, final_response  *)
(* is the "name: result" lines in result-set order, separated by one       *)
(* newline.                                                                *)
C9_NewlineSeparated ==
    (SynthesizerCompleted /\ SynthesisCallFailed) =>
        state.final_response = Join(NameResultLines, <<NL>>)

(* C9, amended: when the Synthesizer's model call fails, final_response is *)
(* the "name: result" pieces in result-set order, separated by a blank     *)
(* line (two newlines); it holds every result, the successful ones and the *)
(* "Error executing" ones alike.                                           *)
C9_BlankLineSeparated ==
    (SynthesizerCompleted /\ SynthesisCallFailed) =>
        /\ state.final_response = Join(NameResultLines, <<NL, NL>>)
        /\ \A i \in 1..Len(state.tool_results) :
              IsSubstr(state.tool_results[i].value, state.final_response)

\* two capabilities, one answered and one raised: both texts are in the response
C9_Witness ==
    /\ SynthesizerCompleted /\ SynthesisCallFailed
    /\ Len(state.tool_results) = 2
    /\ state.tool_results[1].value = <<"answer">>
    /\ IsSubstr(<<"Error executing ">>, state.tool_results[2].value)
    /\ IsSubstr(<<"answer">>, state.final_response)
    /\ IsSubstr(<<"Error executing ">>, state.final_response)

(* C10, as stated: for a non-empty tool_results the Synthesizer stores a   *)
(* non-empty final_response.                                               *)
C10_NonEmptyResponse ==
    (SynthesizerCompleted /\ Len(state.tool_results) >= 1) =>
        state.final_response # << >>

(* C10, amended: with two or more entries final_response is non-empty;     *)
(* with exactly one entry it is non-empty exactly when that entry's result *)
(* string is non-empty.                                                    *)
C10_NonEmptyUnlessEmptyResult ==
    SynthesizerCompleted =>
        /\ Len(state.tool_results) >= 2 => state.final_response # << >>
        /\ Len(state.tool_results) = 1 =>
              (state.final_response = << >> <=> state.tool_results[1].value = << >>)

\* two entries, one of them an empty result string, and a non-empty response
C10_Witness ==
    /\ SynthesizerCompleted /\ Len(state.tool_results) = 2
    /\ state.tool_results[1].value = << >>
    /\ state.final_response # << >>

----------------------------------------------------------------------------
(* Vocabulary of the planner's properties *)

\* the Planner ran and its model call returned a text
PlannerAnswered == PlannerCompleted /\ llm_log[1].out.kind = "str"

\* the Planner ran and its model call raised
PlannerCallRaised == PlannerCompleted /\ llm_log[1].out.kind = "exc"

\* the model response, lower-cased, names the capability
ResponseNames(name) == Mentions(Lower(llm_log[1].out.text), name)

\* the tickers that the tickers and company names occurring in text stand for
RecognizedIn(text) ==
    {symbols[i] : i \in {j \in 1..Len(symbols) : Mentions(Upper(text), symbols[j])}}
    \cup {company_map[i][2] :
             i \in {j \in 1..Len(company_map) : Mentions(Upper(text), company_map[j][1])}}

\* the plan in the state selects the quote lookup alone, for the ticker t
QuotePlanFor(t) ==
    /\ IsPlanObject(state.plan)
    /\ state.plan.tools_to_use = <<"stock_quote">>
    /\ DOMAIN state.plan.parameters = {"stock_quote"}
    /\ state.plan.parameters["stock_quote"] = ("symbol" :> <<t>>)

----------------------------------------------------------------------------
(* C11: RAGTool._run and StockTool._run return a string for every input    *)
(* and every failure of the chat system or of the quote client; nothing    *)
(* they raise inside reaches their caller.                                 *)
C11_ProvidersReturnStrings ==
    (entry \in {"rag_tool", "stock_tool"} /\ pc = "done")
        => (ret.kind = "str" /\ exc.kind = "None")

\* the quote provider was called with a symbol that is no string, so that
\* StockTools.get_current_price raised, and it returned a string
C11_Witness ==
    /\ entry = "stock_tool"
    /\ pc = "done"
    /\ direct.symbol = NoneVal
    /\ ret.kind = "str"
    /\ exc.kind = "None"

----------------------------------------------------------------------------
(* C12 as stated: for every query containing a recognized ticker or        *)
(* company name the Planner's plan is tools_to_use = [stock_quote] with    *)
(* the ticker of the token in the query.                                   *)
C12_RecognizedQueryGetsQuote ==
    (PlannerCompleted /\ RecognizedIn(state.user_query) # {})
        => \E t \in RecognizedIn(state.user_query) : QuotePlanFor(t)

(* C12 amended: when the model response names stock_quote and itself holds *)
(* no ticker or company name, and the recognized tokens of the query all   *)
(* stand for one ticker, the plan is tools_to_use = [stock_quote] with     *)
(* that ticker as its symbol.                                              *)
C12_QuoteForQueryTicker ==
    \A t \in Range(symbols) :
        ( /\ PlannerAnswered
          /\ ResponseNames("stock_quote")
          /\ RecognizedIn(llm_log[1].out.text) = {}
          /\ RecognizedIn(state.user_query) = {t} )
            => QuotePlanFor(t)

\* a company name in the query gave its ticker
C12_Witness ==
    /\ PlannerAnswered
    /\ ResponseNames("stock_quote")
    /\ RecognizedIn(llm_log[1].out.text) = {}
    /\ state.user_query = <<"Tesla", "price">>
    /\ QuotePlanFor("TSLA")

----------------------------------------------------------------------------
(* C13 as stated: for every query without a recognized ticker or company   *)
(* name and every model response that names stock_quote, the plan's symbol *)
(* is AAPL.                                                                *)
C13_DefaultTicker ==
    (PlannerAnswered /\ ResponseNames("stock_quote") /\ RecognizedIn(state.user_query) = {})
        => QuotePlanFor("AAPL")

(* C13 amended: for every query without a recognized ticker or company     *)
(* name and every model response that names stock_quote and itself holds   *)
(* no ticker or company name, the plan's symbol is AAPL.                   *)
C13_DefaultTickerWhenNoneNamed ==
    ( /\ PlannerAnswered
      /\ ResponseNames("stock_quote")
      /\ RecognizedIn(state.user_query) = {}
      /\ RecognizedIn(llm_log[1].out.text) = {} )
        => QuotePlanFor("AAPL")

\* a query without any recognized token was planned as a quote request
C13_Witness ==
    /\ PlannerAnswered
    /\ ResponseNames("stock_quote")
    /\ state.user_query = <<"hello">>
    /\ RecognizedIn(llm_log[1].out.text) = {}
    /\ QuotePlanFor("AAPL")

----------------------------------------------------------------------------
(* C14 as stated: in "simple" mode run executes the Planner, the Executor  *)
(* and the Synthesizer by direct call and returns the Final Response that  *)
(* the "langgraph" mode returns.                                           *)
C14_SimpleModeRunsStages ==
    (entry = "run" /\ pc = "done" /\ mode = "simple")
        => (PlannerCompleted /\ ret # RunError(NoWorkflow))

----------------------------------------------------------------------------
(* C15 as stated: get_status returns the fields mode, capability names and *)
(* status, the capability names being rag_search and stock_quote, and mode *)
(* the substrate in use.                                                   *)
C15_StatusNamesCapabilities ==
    (entry = "get_status" /\ pc = "done")
        => /\ {"mode", "status"} \subseteq DOMAIN status
           /\ status["mode"] = mode
           /\ \E k \in DOMAIN status \ {"mode", "status", "langgraph_available"} :
                 Range(status[k]) = tools

(* C15 amended: get_status returns the fields mode, langgraph_available,   *)
(* nodes and status; nodes is the list of the stage names planner,         *)
(* executor, synthesizer, status is "ready", and mode is "langgraph" when  *)
(* the LangGraph import succeeded and "simple" when it did not.            *)
C15_StatusNamesStages ==
    (entry = "get_status" /\ pc = "done")
        => /\ DOMAIN status = {"mode", "langgraph_available", "nodes", "status"}
           /\ status["mode"] = mode
           /\ status["langgraph_available"] = (mode = "langgraph")
           /\ status["nodes"] = <<"planner", "executor", "synthesizer">>
           /\ status["status"] = "ready"

\* get_status was called on a workflow built without LangGraph
C15_Witness ==
    /\ entry = "get_status"
    /\ pc = "done"
    /\ mode = "simple"
    /\ status["mode"] = "simple"

----------------------------------------------------------------------------
(* C16: when the model call raises inside the Planner, the Planner stores  *)
(* a plan with tools_to_use = [], parameters = {} and a reasoning that     *)
(* contains the exception message, and does not raise; run then goes       *)
(* through the Executor and the Synthesizer and returns the final response *)
(* without any exception reaching it.                                      *)
C16_PlanningFailureRecovered ==
    PlannerCallRaised
        => /\ IsPlanObject(state.plan)
           /\ state.plan.tools_to_use = << >>
           /\ state.plan.parameters = EmptyDict
           /\ IsSubstr(llm_log[1].out.text, state.plan.reasoning)
           /\ exc.kind = "None"
           /\ (entry = "run" /\ pc = "done")
                 => /\ stage_log = <<"planner", "executor", "synthesizer">>
                    /\ "final_response" \in state.keys
                    /\ ret = Str(state.final_response)

\* a run whose planning call raised "timeout" has returned
C16_Witness ==
    /\ entry = "run"
    /\ pc = "done"
    /\ PlannerCallRaised
    /\ llm_log[1].out.text = <<"timeout">>
    /\ state.plan.reasoning = <<"Error during planning: ", "timeout">>
    /\ stage_log = <<"planner", "executor", "synthesizer">>
    /\ ret.kind = "str"

----------------------------------------------------------------------------
(* Vocabulary of the synthesizer's properties *)

\* the Synthesizer was entered and it is over
SynthesizerOver == LastStage = "synthesizer" /\ pc = "done"

\* the Synthesizer raised: to its caller, or into run's except branch
SynthesizerRaised ==
    /\ SynthesizerOver
    /\ \/ exc.kind = "exc"
       \/ entry = "run" /\ ret # Str(state.final_response)

----------------------------------------------------------------------------
(* C17 as stated: when the Result Set is empty the Synthesizer fails with  *)
(* an index or key error and writes no Final Response.                     *)
C17_EmptyResultSetFails ==
    (SynthesizerOver /\ state.tool_results = << >>) => SynthesizerRaised

(* C17 amended: when the Result Set is empty (the plan requested zero      *)
(* capabilities) the Synthesizer does not fail: it attempts its model call *)
(* once, the call fails, and the fallback writes the empty string as the   *)
(* Final Response, which run returns.                                      *)
C17_EmptyResultSetGivesEmptyResponse ==
    (SynthesizerOver /\ state.tool_results = << >>)
        => /\ ~SynthesizerRaised
           /\ "final_response" \in state.keys
           /\ state.final_response = << >>
           /\ Cardinality(SynthesizerCalls) = 1
           /\ \A i \in SynthesizerCalls : llm_log[i].out.kind = "exc"
           /\ entry = "run" => ret = Str(<< >>)

\* the Synthesizer has returned on an empty Result Set
C17_Witness ==
    /\ SynthesizerOver
    /\ state.tool_results = << >>
    /\ state.plan.tools_to_use = << >>
    /\ "final_response" \in state.keys
    /\ SynthesizerCalls # {}

----------------------------------------------------------------------------
(* C18: when the model response names neither stock_quote nor rag_search   *)
(* (case-insensitively) the Planner stores no value as the plan, not a     *)
(* plan object, and no capability provider is invoked in that run.         *)
C18_NoTokenNoPlanNoProvider ==
    (PlannerAnswered /\ ~ResponseNames("stock_quote") /\ ~ResponseNames("rag_search"))
        => /\ "plan" \in state.keys
           /\ state.plan = NonePlan
           /\ tool_log = << >>

\* a run whose model response named no capability is over: the Executor was
\* entered and no provider was called
C18_Witness ==
    /\ entry = "run"
    /\ pc = "done"
    /\ PlannerAnswered
    /\ llm_log[1].out.text = <<"unsure">>
    /\ state.plan = NonePlan
    /\ LastStage = "executor"
    /\ tool_log = << >>

----------------------------------------------------------------------------
(* C19 as stated: for a Result Set that does not hold exactly one entry    *)
(* the Synthesizer invokes the model provider exactly once, with a prompt  *)
(* holding the query, the plan's reasoning and every (name, result) pair.  *)
C19_ProviderInvokedOnce ==
    (SynthesizerOver /\ ~SynthesizerRaised /\ Len(state.tool_results) # 1)
        => /\ Cardinality(SynthesizerCalls) = 1
           /\ \A i \in SynthesizerCalls :
                 /\ llm_log[i].method \in LLMClient_methods
                 /\ IsSubstr(state.user_query, llm_log[i].prompt)
                 /\ IsSubstr(state.plan.reasoning, llm_log[i].prompt)

----------------------------------------------------------------------------
(* C20: the capability names are looked for in a fixed order: a response   *)
(* whose lower-cased text contains stock_quote gives tools_to_use =        *)
(* [stock_quote] even when it also contains rag_search; rag_search is      *)
(* selected only when rag_search occurs and stock_quote does not.          *)
C20_QuoteCheckedFirst ==
    PlannerAnswered
        => /\ ResponseNames("stock_quote")
                 => (IsPlanObject(state.plan) /\ state.plan.tools_to_use = <<"stock_quote">>)
           /\ (IsPlanObject(state.plan) /\ state.plan.tools_to_use = <<"rag_search">>)
                 <=> (ResponseNames("rag_search") /\ ~ResponseNames("stock_quote"))

\* a response naming both capabilities was planned as a quote lookup
C20_Witness ==
    /\ PlannerAnswered
    /\ ResponseNames("stock_quote")
    /\ ResponseNames("rag_search")
    /\ state.plan.tools_to_use = <<"stock_quote">>

----------------------------------------------------------------------------
(* Vocabulary of the symbol extraction *)

\* the text scanned for a symbol: response, a blank, the query, upper-cased
ScannedText == Upper(llm_log[1].out.text \o <<" ">> \o state.user_query)

\* positions of the allow-list whose ticker occurs in the scanned text
TickersFound == {i \in 1..Len(symbols) : \E k \in 1..Len(ScannedText) :
                                             AtomHas(ScannedText[k], symbols[i])}

\* positions of the company map whose name occurs in the scanned text
CompaniesFound == {i \in 1..Len(company_map) : \E k \in 1..Len(ScannedText) :
                                                   AtomHas(ScannedText[k], company_map[i][1])}

\* the symbol parameter of the quote plan in the state
PlanSymbol == state.plan.parameters["stock_quote"]["symbol"]

----------------------------------------------------------------------------
(* C21: the symbol of a quote plan is the first ticker of the allow-list,  *)
(* in list order, that occurs in the upper-cased response-and-query text;  *)
(* only when no ticker occurs, the ticker of the first company name, in    *)
(* map order, that occurs; only when neither occurs, AAPL.  A ticker       *)
(* occurring anywhere takes precedence over any company name.              *)
C21_TickerThenCompanyThenDefault ==
    (PlannerAnswered /\ ResponseNames("stock_quote"))
        => /\ IsPlanObject(state.plan)
           /\ "stock_quote" \in DOMAIN state.plan.parameters
           /\ \A i \in TickersFound :
                 (\A j \in TickersFound : i <= j) => PlanSymbol = <<symbols[i]>>
           /\ \A i \in CompaniesFound :
                 (TickersFound = {} /\ \A j \in CompaniesFound : i <= j)
                     => PlanSymbol = <<company_map[i][2]>>
           /\ (TickersFound = {} /\ CompaniesFound = {}) => PlanSymbol = <<"AAPL">>

\* a query naming the company of one ticker and, after it, another ticker was
\* planned with the ticker
C21_Witness ==
    /\ PlannerAnswered
    /\ ResponseNames("stock_quote")
    /\ state.user_query = <<"Tesla", "intc">>
    /\ TickersFound # {}
    /\ CompaniesFound # {}
    /\ PlanSymbol = <<"INTC">>

----------------------------------------------------------------------------
(* C22: when the model response names rag_search and not stock_quote, the  *)
(* plan is tools_to_use = [rag_search] with parameters                     *)
(* {rag_search: {question: q}}, q being the query unchanged, for every q.  *)
C22_SearchPlanCarriesQuery ==
    (PlannerAnswered /\ ResponseNames("rag_search") /\ ~ResponseNames("stock_quote"))
        => /\ IsPlanObject(state.plan)
           /\ state.plan.tools_to_use = <<"rag_search">>
           /\ state.plan.parameters = ("rag_search" :> ("question" :> state.user_query))

\* a query in mixed case was planned as a knowledge-base search
C22_Witness ==
    /\ PlannerAnswered
    /\ ResponseNames("rag_search")
    /\ ~ResponseNames("stock_quote")
    /\ state.user_query = <<"Tesla", "price">>
    /\ state.plan.parameters["rag_search"]["question"] = <<"Tesla", "price">>

----------------------------------------------------------------------------
(* Vocabulary of the executor's properties *)

\* plan.get("parameters", {}) of the plan in the state
PlanParameters ==
    IF "parameters" \in state.plan.keys THEN state.plan.parameters ELSE EmptyDict

\* the plan holds no parameters for the capability
NoParametersFor(name) == name \notin DOMAIN PlanParameters \/ PlanParameters[name] = EmptyDict

\* the provider invocations made with the name
CallsOf(name) == {i \in 1..Len(tool_log) : tool_log[i].name = name}

----------------------------------------------------------------------------
(* C25: when the plan names a registered capability and holds no           *)
(* parameters for it, the Executor invokes rag_search with question = the  *)
(* state's user query, and stock_quote with symbol = AAPL.                 *)
C25_DefaultArguments ==
    (ExecutorCompleted /\ state.plan.kind = "dict")
        => \A name \in tools :
              (name \in Range(PlannedTools(state)) /\ NoParametersFor(name))
                  => /\ CallsOf(name) # {}
                     /\ \A i \in CallsOf(name) :
                           /\ name = "rag_search"
                                 => tool_log[i].args["question"] = state.user_query
                           /\ name = "stock_quote"
                                 => tool_log[i].args["symbol"] = <<"AAPL">>

\* both capabilities were invoked for a plan without parameters
C25_Witness ==
    /\ ExecutorCompleted
    /\ state.plan.kind = "dict"
    /\ PlanParameters = EmptyDict
    /\ CallsOf("rag_search") # {}
    /\ CallsOf("stock_quote") # {}
    /\ state.user_query # << >>

----------------------------------------------------------------------------
(* C26 as stated: in every run started with session_id = s whose plan      *)
(* selects the knowledge-base search, the knowledge-base provider is       *)
(* invoked with session_id = s.                                            *)
C26_CallerSessionReachesProvider ==
    (entry = "run" /\ ExecutorCompleted)
        => \A i \in CallsOf("rag_search") : tool_log[i].args["session_id"] = state.session_id

----------------------------------------------------------------------------
(* C27 as stated: whenever RAGChatSystem.chat would succeed for a          *)
(* question, RAGTool._run returns the response text that chat produces,    *)
(* and the "Error querying RAG system" string only when the chat system    *)
(* fails.                                                                  *)
C27_RunReturnsChatResponse ==
    (entry = "rag_tool" /\ pc = "done" /\ ~direct.failed)
        => ret = RAGChatSystem_chat(direct.question, direct.chain)

----------------------------------------------------------------------------
(* C28: in every run through UnifiedAgenticWorkflow.run the Result Set has *)
(* at most one entry: every plan the Planner emits names zero or one       *)
(* capability, so the Synthesizer's merge path is entered only with an     *)
(* empty Result Set, never with two or more results.                       *)
C28_AtMostOneResult ==
    (entry = "run" /\ PlannerCompleted)
        => /\ Len(state.plan.tools_to_use) <= 1
           /\ Len(state.tool_results) <= 1
           /\ Len(tool_log) <= 1
           /\ SynthesizerCalls # {} => state.tool_results = << >>

\* a run entered the merge path, on an empty Result Set
C28_Witness ==
    /\ entry = "run"
    /\ pc = "done"
    /\ SynthesizerCalls # {}
    /\ state.tool_results = << >>

----------------------------------------------------------------------------
(* Vocabulary of the pipeline's steps *)

\* the stages of the compiled graph, in the order of its edges
StageOrder == <<"planner", "executor", "synthesizer">>

\* the step runs exactly the stage that comes next in the order
RunsNextStage ==
    /\ Len(stage_log) < Len(StageOrder)
    /\ stage_log' = Append(stage_log, StageOrder[Len(stage_log) + 1])
    /\ pc = StageOrder[Len(stage_log) + 1]

\* the step leaves every field of the state but f as it is
WritesOnly(f) ==
    /\ \A g \in StateKeys \ {f} : state'[g] = state[g]
    /\ state'.keys \ {f} = state.keys \ {f}

----------------------------------------------------------------------------
(* C23: in every run the stages execute in the order planner, executor,    *)
(* synthesizer, each at most once and each only after the previous one has *)
(* completed; after the synthesizer the run is terminal; no stage is       *)
(* retried or re-entered, and no provider invocation runs a stage.         *)
C23_StagesInOrderOnce ==
    [][ entry' = "run"
           => /\ pc # "done"
              /\ LastStage # "synthesizer"
              /\ stage_log' = stage_log \/ RunsNextStage
              /\ LastStage' = "synthesizer" => pc' = "done" ]_vars

\* a run went through the three stages and is over
C23_Witness ==
    /\ entry = "run"
    /\ pc = "done"
    /\ stage_log = StageOrder
    /\ tool_log # << >>

----------------------------------------------------------------------------
(* C24: each stage writes exactly one field of the pipeline state and      *)
(* leaves the others unchanged: the Planner only plan, the Executor only   *)
(* tool_results, the Synthesizer only final_response; user_query and       *)
(* session_id keep their values from the start of the run to its end, and  *)
(* plan and tool_results are not modified after the stage that wrote them. *)
C24_OneFieldPerStage ==
    [][ /\ pc = "planner" => WritesOnly("plan")
        /\ pc = "executor" => WritesOnly("tool_results")
        /\ pc = "synthesizer" => WritesOnly("final_response")
        /\ pc = "done" => state' = state ]_vars

\* the three stages have each written their field in a run
C24_Witness ==
    /\ entry = "run"
    /\ pc = "done"
    /\ stage_log = StageOrder
    /\ IsPlanObject(state.plan)
    /\ state.tool_results # << >>
    /\ state.final_response # << >>
    /\ state.session_id = <<"s1">>

----------------------------------------------------------------------------
(* C29 as stated: when ingest_pdfs runs with a new PDF whose text is       *)
(* extracted and the vector store is reachable, the run stores that file's *)
(* chunks and records the file in the processed-files log, and no file's   *)
(* chunks are stored twice across runs.                                    *)
C29_NewPdfStoredAndLogged ==
    /\ \A f \in PdfNames : index[f] <= 1
    /\ (ingest.by # "none" /\ ingest.reachable)
          => \A f \in ingest.new_files :
                ingest.chunks[f] > 0
                    => (index[f] = 1 /\ f \in load_processed_files(processed_files_json))

----------------------------------------------------------------------------
(* Vocabulary of the chat API's properties *)

\* the request of the log was a chat made with the session id s (a request
\* without a session id is one of the default session), and it was served
ChatServedOn(e, s) ==
    /\ e.op = "chat"
    /\ ~e.failed
    /\ e.session_id = Str(s) \/ (e.session_id = NoneVal /\ s = <<"default">>)

\* the request of the log was the deletion of s
DeletionOf(e, s) == e.op = "delete" /\ e.session_id = Str(s)

\* whether the session s exists after the requests of log
RECURSIVE SessionExists(_, _)
SessionExists(log, s) ==
    IF log = << >> THEN FALSE
    ELSE LET e == log[Len(log)] IN
         IF DeletionOf(e, s) THEN FALSE
         ELSE IF ChatServedOn(e, s) THEN TRUE
         ELSE SessionExists(SubSeq(log, 1, Len(log) - 1), s)

\* the messages of the chats answered on s since s was last created or deleted
RECURSIVE MessagesSince(_, _)
MessagesSince(log, s) ==
    IF log = << >> THEN << >>
    ELSE LET e == log[Len(log)]
             before == MessagesSince(SubSeq(log, 1, Len(log) - 1), s)
         IN  IF DeletionOf(e, s) THEN << >>
             ELSE IF ChatServedOn(e, s) /\ e.chain.kind = "str"
             THEN before \o <<[role |-> "user", content |-> e.question],
                              [role |-> "assistant", content |-> e.chain.text]>>
             ELSE before

----------------------------------------------------------------------------
(* C30: for any sequence of POST /chat, GET /chat/history/{id} and         *)
(* DELETE /chat/{id} requests, the history returned for a session s holds  *)
(* only the messages of the chats made with session id s since s was last  *)
(* created or deleted: requests on other sessions never change it, a       *)
(* session is created at most once while it exists, and after DELETE the   *)
(* history of s is empty until the next chat on s.                         *)
C30_HistoryIsolatedPerSession ==
    \A s \in SessionIds :
        /\ get_chat_history(sessions, s) = MessagesSince(requests, s)
        /\ (s \in DOMAIN sessions) = SessionExists(requests, s)
        /\ \A i \in 1..Len(requests) :
              ChatServedOn(requests[i], s)
                  => requests[i].created = ~SessionExists(SubSeq(requests, 1, i - 1), s)
        /\ ( /\ requests # << >>
              /\ requests[Len(requests)].op = "history"
              /\ requests[Len(requests)].session_id = Str(s) )
              => /\ response.kind = "history"
                 /\ response.messages = MessagesSince(requests, s)

\* the history of s1 was returned after a chat on s1 and one on the default
\* session
C30_Witness ==
    /\ response.kind = "history"
    /\ response.session_id = <<"s1">>
    /\ response.total_messages = 2
    /\ <<"default">> \in DOMAIN sessions
    /\ sessions[<<"default">>] # << >>
    /\ Len(requests) = 3

=============================================================================
